---- MODULE Spec2Model ----
(***************************************************************************)
(* Tiled escape-time rendering of the Mandelbrot set                       *)
(* (src/py/mandelbrot.py, mandelbrot_float.py, mandelbrot_complex.py).     *)
(*                                                                         *)
(* Three specifications share the module:                                  *)
(*   Spec      one call of mandelbrot(...): axes, partition, submission of *)
(*             the tiles to the process pool, workers, collection in       *)
(*             completion order, merge and return;                         *)
(*   SpecEval  one call of fn_test, one loop iteration per step;           *)
(*   SpecPart  one call of batch_ranges_with_size.                         *)
(*                                                                         *)
(* Numbers are exact rationals <<num, den>> in lowest terms.  The inputs   *)
(* are dyadic (multiples of 1/2) and the iteration depth is bounded, so    *)
(* every intermediate value is exactly representable in binary floating    *)
(* point and the exact arithmetic is what the floating-point code computes.*)
(***************************************************************************)
EXTENDS Integers, Sequences, FiniteSets, TLC

VARIABLES
    variant,          \* which module runs: "smooth" (mandelbrot.py), "float", "complex"
    box,              \* <<xmin, xmax, ymin, ymax>>
    cols_n, rows_n,   \* number of samples of the real / imaginary axis
    depth,            \* depth / max_it
    n_workers,
    tile_size,
    pc,               \* position of the caller's thread
    xx, yy,           \* the axes
    row_batches, col_batches,
    future_list,      \* the futures, in submission order
    image_tile_list,  \* the collected tile results, in collection order
    pbar,             \* the tqdm bar: [total, n]
    zz,               \* the output grid
    merged,           \* number of tiles of image_tile_list already copied into zz
    err,              \* the exception that left the call
    normalized,       \* history: how many times "zz / max_it" ran on the grid
    ev,               \* SpecEval: the frame of one fn_test call
    pt,               \* SpecPart: one batch_ranges_with_size call
    cm                \* SpecColor: the frame of one PolyColor.apply call

runvars == <<variant, box, cols_n, rows_n, depth, n_workers, tile_size, pc, xx, yy,
             row_batches, col_batches, future_list, image_tile_list, pbar, zz,
             merged, err, normalized>>
vars == <<runvars, ev, pt, cm>>

None == "None"

\* The values of the run's locals before they are bound: no bar, no grid, and
\* the result of a future that has not returned.
NoBar == [total |-> -1, n |-> -1]
NoGrid == <<>>
NoResult == <<>>

-----------------------------------------------------------------------------
(* Bounds of the model *)

MaxSize == 3       \* samples per axis: 1..MaxSize
MaxDepth == 3      \* depth / max_it: 1..MaxDepth
MaxWorkers == 2    \* n_workers: 1..MaxWorkers
MaxTiles == 4      \* runs with more tiles than this are not explored
MaxCoord == 6      \* SpecEval: cx, cy in {k/2 : -MaxCoord <= k <= MaxCoord}
MaxN == 7          \* SpecPart: N in 1..MaxN
MaxBatch == 8      \* SpecPart: batch_size in -NegBatch..MaxBatch
NegBatch == 2      \* most negative batch_size / tile_size explored

-----------------------------------------------------------------------------
(* Exact rational arithmetic standing for the float arithmetic of the code *)

Abs(n) == IF n < 0 THEN -n ELSE n

RECURSIVE GCD(_, _)
GCD(a, b) == IF b = 0 THEN a ELSE GCD(b, a % b)

Rat(n, d) ==
    LET s == IF d < 0 THEN -1 ELSE 1
        g == GCD(Abs(n), Abs(d))
    IN  <<(s * n) \div g, (s * d) \div g>>

RInt(n) == <<n, 1>>

RLcm(a, b) == (a[2] \div GCD(a[2], b[2])) * b[2]

RAdd(a, b) ==
    LET l == RLcm(a, b)
    IN  Rat(a[1] * (l \div a[2]) + b[1] * (l \div b[2]), l)

RNeg(a) == <<-a[1], a[2]>>

RSub(a, b) == RAdd(a, RNeg(b))

RMul(a, b) == Rat(a[1] * b[1], a[2] * b[2])

RDiv(a, b) == Rat(a[1] * b[2], a[2] * b[1])

RGt(a, b) == a[1] * b[2] > b[1] * a[2]

-----------------------------------------------------------------------------
(* fn_test: the escape-time evaluator, in its three variants *)

Variants == {"smooth", "float", "complex"}

Threshold4 == 4
Threshold16 == 16

\* The squared escape radius each variant tests against.
EscapeThreshold(v) == IF v = "float" THEN Threshold16 ELSE Threshold4

\* The value returned when the loop runs out: 0 in mandelbrot.py, max_it elsewhere.
Sentinel(v, d) == IF v = "smooth" THEN RInt(0) ELSE RInt(d)

\* The value returned on escape at loop index i: i / depth in mandelbrot.py, i elsewhere.
EscapeValue(v, i, d) == IF v = "smooth" THEN Rat(i, d) ELSE RInt(i)

\* The frame of a fn_test call just before the loop.
EvalStart(v, cx, cy, d) ==
    [variant |-> v, cx |-> cx, cy |-> cy, depth |-> d,
     i |-> 0, x |-> RInt(0), y |-> RInt(0),
     pc |-> "loop", escaped |-> FALSE, ret |-> None]

\* zn = z**2 + c
NextX(f) == RAdd(RSub(RMul(f.x, f.x), RMul(f.y, f.y)), f.cx)
NextY(f) == RAdd(RMul(RMul(RInt(2), f.x), f.y), f.cy)

\* EscapeTest with the comparison turned round.
EscapeTestReversed(f, xn, yn) ==
    RGt(RInt(EscapeThreshold(f.variant)), RAdd(RMul(xn, xn), RMul(yn, yn)))

\* if xn*xn + yn*yn > 4 (16 in mandelbrot_float.py; np.abs(zn) > 2.0 in
\* mandelbrot_complex.py, the same test on the squares)
EscapeTest(f, xn, yn) ==
    RGt(RAdd(RMul(xn, xn), RMul(yn, yn)), RInt(EscapeThreshold(f.variant)))

\* One pass of "for i in range(max_it)": the loop header and, if the range is
\* not exhausted, the body.
LoopStep(f) ==
    IF f.i >= f.depth
    THEN [f EXCEPT !.pc = "returned", !.ret = Sentinel(f.variant, f.depth)]
    ELSE LET xn == NextX(f)
             yn == NextY(f)
         IN  IF EscapeTest(f, xn, yn)
             THEN [f EXCEPT !.pc = "returned", !.escaped = TRUE,
                            !.ret = EscapeValue(f.variant, f.i, f.depth)]
             ELSE [f EXCEPT !.x = xn, !.y = yn, !.i = f.i + 1]

RECURSIVE RunLoop(_)
RunLoop(f) == IF f.pc = "returned" THEN f ELSE RunLoop(LoopStep(f))

fn_test(v, cx, cy, d) == RunLoop(EvalStart(v, cx, cy, d)).ret

-----------------------------------------------------------------------------
(* batch_ranges_with_size *)

\* Division rounding up instead of down.
PyCeilDiv(a, b) == IF b > 0 THEN -((-a) \div b) ELSE -(a \div (-b))

\* Python's // : floor division, for either sign of the divisor.
PyFloorDiv(a, b) == IF b > 0 THEN a \div b ELSE (-a) \div (-b)

\* The (start, end) tuples "for i in range(n_batches)" appends.
RECURSIVE FullBatches(_, _)
FullBatches(n_batches, batch_size) ==
    IF n_batches <= 0
    THEN <<>>
    ELSE Append(FullBatches(n_batches - 1, batch_size),
                <<(n_batches - 1) * batch_size, n_batches * batch_size>>)

\* batch_ranges_with_size without its trailing remainder range.
batch_ranges_no_remainder(N, batch_size) ==
    IF N <= batch_size
    THEN [exc |-> None, rng |-> <<<<0, N>>>>]
    ELSE IF batch_size = 0
    THEN [exc |-> "ZeroDivisionError", rng |-> <<>>]
    ELSE [exc |-> None, rng |-> FullBatches(PyFloorDiv(N, batch_size), batch_size)]

\* The call's outcome: the list returned, or the exception raised by N // 0.
batch_ranges_with_size(N, batch_size) ==
    IF N <= batch_size
    THEN [exc |-> None, rng |-> <<<<0, N>>>>]
    ELSE IF batch_size = 0
    THEN [exc |-> "ZeroDivisionError", rng |-> <<>>]
    ELSE LET n_batches == PyFloorDiv(N, batch_size)
             full == FullBatches(n_batches, batch_size)
         IN  [exc |-> None,
              rng |-> IF batch_size * n_batches < N
                      THEN Append(full, <<batch_size * n_batches, N>>)
                      ELSE full]

-----------------------------------------------------------------------------
(* The three call frames, and their idle values in the other specifications *)

RunIdle ==
    /\ variant = None /\ box = None /\ cols_n = 0 /\ rows_n = 0 /\ depth = 0
    /\ n_workers = 0 /\ tile_size = 0 /\ pc = "idle" /\ xx = <<>> /\ yy = <<>>
    /\ row_batches = <<>> /\ col_batches = <<>> /\ future_list = <<>>
    /\ image_tile_list = <<>> /\ pbar = NoBar /\ zz = NoGrid /\ merged = 0
    /\ err = None /\ normalized = 0

-----------------------------------------------------------------------------
(* SpecEval: one call of fn_test, a loop pass per step *)

Coords == {Rat(k, 2) : k \in (-MaxCoord)..MaxCoord}

InitEval ==
    /\ RunIdle
    /\ pt = None
    /\ cm = None
    /\ \E v \in Variants, cx \in Coords, cy \in Coords, d \in 1..MaxDepth :
           ev = EvalStart(v, cx, cy, d)

\* The loop body runs for index ev.i: it returns on escape or moves to i + 1.
EvalIterate ==
    /\ ev.pc = "loop"
    /\ ev.i < ev.depth
    /\ ev' = LoopStep(ev)
    /\ UNCHANGED <<runvars, pt, cm>>

\* range(max_it) is exhausted: the sentinel is returned.
EvalExhausted ==
    /\ ev.pc = "loop"
    /\ ev.i >= ev.depth
    /\ ev' = LoopStep(ev)
    /\ UNCHANGED <<runvars, pt, cm>>

NextEval == EvalIterate \/ EvalExhausted

SpecEval == InitEval /\ [][NextEval]_vars

-----------------------------------------------------------------------------
(* SpecPart: one call of batch_ranges_with_size *)

InitPart ==
    /\ RunIdle
    /\ ev = None
    /\ cm = None
    /\ \E N \in 1..MaxN, b \in (-NegBatch)..MaxBatch :
           pt = [N |-> N, batch_size |-> b, pc |-> "call", rng |-> <<>>]

PartReturn ==
    /\ pt.pc = "call"
    /\ LET out == batch_ranges_with_size(pt.N, pt.batch_size)
       IN  /\ out.exc = None
           /\ pt' = [pt EXCEPT !.pc = "returned", !.rng = out.rng]
    /\ UNCHANGED <<runvars, ev, cm>>

PartRaise ==
    /\ pt.pc = "call"
    /\ LET out == batch_ranges_with_size(pt.N, pt.batch_size)
       IN  /\ out.exc # None
           /\ pt' = [pt EXCEPT !.pc = "raised"]
    /\ UNCHANGED <<runvars, ev, cm>>

NextPart == PartReturn \/ PartRaise

SpecPart == InitPart /\ [][NextPart]_vars

-----------------------------------------------------------------------------
(* Spec: one call of mandelbrot(...) *)

Half(k) == Rat(k, 2)

\* <<xmin, xmax, ymin, ymax>>: the box of the __main__ of mandelbrot_float.py
\* and mandelbrot_complex.py, (-2, 1, -1.5, 1.5).
Boxes == { <<RInt(-2), RInt(1), Half(-3), Half(3)>> }

\* What np.empty may hand back in a cell that is never written: the block's
\* previous content.  One draw per allocation.
Garbage == {RInt(0), RInt(7)}

\* linspace with the single sample of num = 1 taken at stop.
linspace_single_at_stop(start, stop, num) ==
    [i \in 1..num |->
        IF num = 1
        THEN stop
        ELSE CHOOSE y \in {RAdd(start, RMul(RInt(i - 1), step)) :
                             step \in {RDiv(RSub(stop, start), RInt(num - 1))}} : TRUE]

\* np.linspace(start, stop, num), endpoint included: step = (stop - start) / (num - 1)
\* is computed once and sample i is start + i * step.
linspace(start, stop, num) ==
    [i \in 1..num |->
        IF num = 1
        THEN start
        ELSE CHOOSE y \in {RAdd(start, RMul(RInt(i - 1), step)) :
                             step \in {RDiv(RSub(stop, start), RInt(num - 1))}} : TRUE]

Cells(rows, cols) == (0..(rows - 1)) \X (0..(cols - 1))

\* np.empty(shape=(rows, cols)): an unwritten block.
np_empty(rows, cols, g) == [cell \in Cells(rows, cols) |-> g]

\* compute_tile / _inner_loop / _mandelbrot_inner_loop: the tile's dict.
compute_tile(v, axx, ayy, rmin, rmax, cmin, cmax, d) ==
    [zz |-> [cell \in Cells(rmax - rmin, cmax - cmin) |->
                fn_test(v, axx[cmin + cell[2] + 1], ayy[rmin + cell[1] + 1], d)],
     rmin |-> rmin, rmax |-> rmax, cmin |-> cmin, cmax |-> cmax]

\* zz[rmin:rmax, cmin:cmax] = tile["zz"]
WriteTile(grid, tile) ==
    [cell \in DOMAIN grid |->
        IF /\ tile.rmin <= cell[1] /\ cell[1] < tile.rmax
           /\ tile.cmin <= cell[2] /\ cell[2] < tile.cmax
        THEN tile.zz[<<cell[1] - tile.rmin, cell[2] - tile.cmin>>]
        ELSE grid[cell]]

\* zz / max_it
Normalize(grid, max_it) == [cell \in DOMAIN grid |-> RDiv(grid[cell], RInt(max_it))]

\* The exception a failing tile leaves in its future.  compute_tile has no
\* try/except and future.result() re-raises the object unchanged, so it carries
\* no tile coordinates; origin records which future it came from.
TileException(k) ==
    [type |-> "Exception", origin |-> k, coords |-> <<>>, names |-> None]

\* N // 0: "integer division or modulo by zero"; no parameter is named.
ZeroDivisionError ==
    [type |-> "ZeroDivisionError", origin |-> 0, coords |-> <<>>, names |-> None]

NoException == [type |-> None, origin |-> 0, coords |-> <<>>, names |-> None]

\* n_workers <= 1 selects the unpooled path in mandelbrot_float.py and
\* mandelbrot_complex.py; mandelbrot.py always uses the pool.
Pooled == variant = "smooth" \/ n_workers > 1

NTiles(b) ==
    LET r == batch_ranges_with_size(rows_n, b)
        c == batch_ranges_with_size(cols_n, b)
    IN  Len(r.rng) * Len(c.rng)

Init ==
    /\ ev = None
    /\ pt = None
    /\ variant \in Variants
    /\ box \in Boxes
    /\ cols_n \in 1..MaxSize
    /\ rows_n \in 1..MaxSize
    /\ depth \in 1..MaxDepth
    /\ n_workers \in 1..MaxWorkers
    /\ tile_size \in (-NegBatch)..MaxSize
    /\ NTiles(tile_size) <= MaxTiles
    /\ pc = "mandelbrot"
    /\ xx = <<>> /\ yy = <<>>
    /\ row_batches = <<>> /\ col_batches = <<>>
    /\ future_list = <<>>
    /\ image_tile_list = <<>>
    /\ pbar = NoBar
    /\ zz = NoGrid
    /\ merged = 0
    /\ err = NoException
    /\ normalized = 0
    /\ cm = None

inputs == <<variant, box, cols_n, rows_n, depth, n_workers, tile_size>>

\* mandelbrot(): the axes are built and the path is chosen.
BuildAxes ==
    /\ pc = "mandelbrot"
    /\ xx' = linspace(box[1], box[2], cols_n)
    /\ yy' = linspace(box[4], box[3], rows_n)
    /\ pc' = IF Pooled THEN "compute_image" ELSE "sequential"
    /\ UNCHANGED <<inputs, row_batches, col_batches, future_list, image_tile_list,
                   pbar, zz, merged, err, normalized, ev, pt, cm>>

\* The unpooled path: one _inner_loop over the whole grid, then / max_it.
SeqCompute ==
    /\ pc = "sequential"
    /\ zz' = Normalize(compute_tile(variant, xx, yy, 0, Len(yy), 0, Len(xx), depth).zz,
                       depth)
    /\ pc' = "done"
    /\ normalized' = normalized + 1
    /\ UNCHANGED <<inputs, xx, yy, row_batches, col_batches, future_list,
                   image_tile_list, pbar, merged, err, ev, pt, cm>>

\* compute_image up to the pool: both partitions, the lists, the bar.
PartitionOk ==
    /\ pc = "compute_image"
    /\ LET r == batch_ranges_with_size(Len(yy), tile_size)
           c == batch_ranges_with_size(Len(xx), tile_size)
       IN  /\ r.exc = None /\ c.exc = None
           /\ row_batches' = r.rng
           /\ col_batches' = c.rng
           /\ pbar' = [total |-> Len(r.rng) * Len(c.rng), n |-> 0]
           /\ pc' = IF Len(r.rng) * Len(c.rng) = 0 THEN "collect" ELSE "submit"
    /\ UNCHANGED <<inputs, xx, yy, future_list, image_tile_list, zz, merged, err, normalized, ev, pt, cm>>

\* batch_ranges_with_size raises: the exception leaves compute_image.
PartitionRaise ==
    /\ pc = "compute_image"
    /\ LET r == batch_ranges_with_size(Len(yy), tile_size)
           c == batch_ranges_with_size(Len(xx), tile_size)
       IN  r.exc # None \/ c.exc # None
    /\ err' = ZeroDivisionError
    /\ pc' = "raised"
    /\ UNCHANGED <<inputs, xx, yy, row_batches, col_batches, future_list,
                   image_tile_list, pbar, zz, merged, normalized, ev, pt, cm>>

\* NextTile with the inner loop's col_batch replaced by the first column batch.
NextTileFirstColumn(k) ==
    LET rb == row_batches[(k \div Len(col_batches)) + 1]
        cb == col_batches[1]
    IN  [rmin |-> rb[1], rmax |-> rb[2], cmin |-> cb[1], cmax |-> cb[2]]

\* The tile the double loop submits at its (k+1)-th pass.
NextTile(k) ==
    LET rb == row_batches[(k \div Len(col_batches)) + 1]
        cb == col_batches[(k % Len(col_batches)) + 1]
    IN  [rmin |-> rb[1], rmax |-> rb[2], cmin |-> cb[1], cmax |-> cb[2]]

NewFuture(t) ==
    [rmin |-> t.rmin, rmax |-> t.rmax, cmin |-> t.cmin, cmax |-> t.cmax,
     state |-> "PENDING", result |-> NoResult, exc |-> NoException, collected |-> FALSE]

\* Submit handing over to the collection loop after every submission.
SubmitThenCollect ==
    /\ pc = "submit"
    /\ future_list' = Append(future_list, NewFuture(NextTile(Len(future_list))))
    /\ pc' = "collect"
    /\ UNCHANGED <<inputs, xx, yy, row_batches, col_batches, image_tile_list, pbar,
                   zz, merged, err, normalized, ev, pt, cm>>

\* executor.submit(...) and future_list.append(future), once per pass.
Submit ==
    /\ pc = "submit"
    /\ future_list' = Append(future_list, NewFuture(NextTile(Len(future_list))))
    /\ pc' = IF Len(future_list) + 1 = pbar.total THEN "collect" ELSE "submit"
    /\ UNCHANGED <<inputs, xx, yy, row_batches, col_batches, image_tile_list, pbar,
                   zz, merged, err, normalized, ev, pt, cm>>

\* PoolAlive with the workers stopping when the submission loop ends.
PoolAliveWhileSubmitting == pc = "submit"

\* The worker processes live from the executor's creation to the end of its
\* with-block, shutdown included.
PoolAlive == pc \in {"submit", "collect", "unwind"}

Running == {k \in 1..Len(future_list) : future_list[k].state = "RUNNING"}

\* A free worker process takes a queued tile.
StartTile(k) ==
    /\ PoolAlive
    /\ future_list[k].state = "PENDING"
    /\ Cardinality(Running) < n_workers
    /\ future_list' = [future_list EXCEPT ![k].state = "RUNNING"]
    /\ UNCHANGED <<inputs, pc, xx, yy, row_batches, col_batches, image_tile_list, pbar,
                   zz, merged, err, normalized, ev, pt, cm>>

\* The worker returns the tile's dict.
FinishTile(k) ==
    /\ PoolAlive
    /\ future_list[k].state = "RUNNING"
    /\ LET f == future_list[k]
       IN  future_list' = [future_list EXCEPT
               ![k].state = "FINISHED",
               ![k].result = compute_tile(variant, xx, yy, f.rmin, f.rmax,
                                          f.cmin, f.cmax, depth)]
    /\ UNCHANGED <<inputs, pc, xx, yy, row_batches, col_batches, image_tile_list, pbar,
                   zz, merged, err, normalized, ev, pt, cm>>

\* The tile's computation raises in the worker.
FailTile(k) ==
    /\ PoolAlive
    /\ future_list[k].state = "RUNNING"
    /\ future_list' = [future_list EXCEPT
           ![k].state = "FINISHED", ![k].exc = TileException(k)]
    /\ UNCHANGED <<inputs, pc, xx, yy, row_batches, col_batches, image_tile_list, pbar,
                   zz, merged, err, normalized, ev, pt, cm>>

\* CollectResult without pbar.update(1).
CollectResultNoUpdate(k) ==
    /\ pc = "collect"
    /\ future_list[k].state = "FINISHED"
    /\ ~future_list[k].collected
    /\ future_list[k].exc = NoException
    /\ future_list' = [future_list EXCEPT ![k].collected = TRUE]
    /\ image_tile_list' = Append(image_tile_list, future_list[k].result)
    /\ UNCHANGED <<inputs, pc, xx, yy, row_batches, col_batches, pbar, zz, merged, err,
                   normalized, ev, pt, cm>>

\* as_completed yields a finished future; future.result() returns its dict,
\* which is appended, and the bar advances.
CollectResult(k) ==
    /\ pc = "collect"
    /\ future_list[k].state = "FINISHED"
    /\ ~future_list[k].collected
    /\ future_list[k].exc = NoException
    /\ future_list' = [future_list EXCEPT ![k].collected = TRUE]
    /\ image_tile_list' = Append(image_tile_list, future_list[k].result)
    /\ pbar' = [pbar EXCEPT !.n = pbar.n + 1]
    /\ UNCHANGED <<inputs, pc, xx, yy, row_batches, col_batches, zz, merged, err, normalized, ev, pt, cm>>

\* CollectRaise with the exception swallowed: the loop goes on.
CollectSwallow(k) ==
    /\ pc = "collect"
    /\ future_list[k].state = "FINISHED"
    /\ ~future_list[k].collected
    /\ future_list[k].exc # NoException
    /\ future_list' = [future_list EXCEPT ![k].collected = TRUE]
    /\ UNCHANGED <<inputs, pc, xx, yy, row_batches, col_batches, image_tile_list, pbar,
                   zz, merged, err, normalized, ev, pt, cm>>

\* as_completed yields a failed future; future.result() re-raises its exception,
\* which leaves the loop, and the executor's with-block starts its shutdown.
CollectRaise(k) ==
    /\ pc = "collect"
    /\ future_list[k].state = "FINISHED"
    /\ ~future_list[k].collected
    /\ future_list[k].exc # NoException
    /\ future_list' = [future_list EXCEPT ![k].collected = TRUE]
    /\ err' = future_list[k].exc
    /\ pc' = "unwind"
    /\ UNCHANGED <<inputs, xx, yy, row_batches, col_batches, image_tile_list, pbar,
                   zz, merged, normalized, ev, pt, cm>>

\* ProcessPoolExecutor.__exit__ is shutdown(wait=True): it returns once every
\* submitted tile has finished; then the exception reaches the caller.
Unwind ==
    /\ pc = "unwind"
    /\ \A k \in 1..Len(future_list) : future_list[k].state = "FINISHED"
    /\ pc' = "raised"
    /\ UNCHANGED <<inputs, xx, yy, row_batches, col_batches, future_list,
                   image_tile_list, pbar, zz, merged, err, normalized, ev, pt, cm>>

\* Every future was yielded: the with-blocks are left and the grid allocated.
AllocateGrid ==
    /\ pc = "collect"
    /\ \A k \in 1..Len(future_list) : future_list[k].collected
    /\ \E g \in Garbage : zz' = np_empty(Len(yy), Len(xx), g)
    /\ merged' = 0
    /\ pc' = "merge"
    /\ UNCHANGED <<inputs, xx, yy, row_batches, col_batches, future_list,
                   image_tile_list, pbar, err, normalized, ev, pt, cm>>

\* One pass of "for tile in image_tile_list".
MergeTile ==
    /\ pc = "merge"
    /\ merged < Len(image_tile_list)
    /\ zz' = WriteTile(zz, image_tile_list[merged + 1])
    /\ merged' = merged + 1
    /\ UNCHANGED <<inputs, pc, xx, yy, row_batches, col_batches, future_list,
                   image_tile_list, pbar, err, normalized, ev, pt, cm>>

\* Return with the division by max_it left out.
ReturnWithoutDivision ==
    /\ pc = "merge"
    /\ merged = Len(image_tile_list)
    /\ zz' = zz
    /\ pc' = "done"
    /\ normalized' = normalized
    /\ UNCHANGED <<inputs, xx, yy, row_batches, col_batches, future_list,
                   image_tile_list, pbar, merged, err, ev, pt, cm>>

\* The grid is returned: as it is in mandelbrot.py, divided by max_it in
\* mandelbrot_float.py (compute_image_mp) and mandelbrot_complex.py (mandelbrot).
Return ==
    /\ pc = "merge"
    /\ merged = Len(image_tile_list)
    /\ zz' = IF variant = "smooth" THEN zz ELSE Normalize(zz, depth)
    /\ pc' = "done"
    /\ normalized' = IF variant = "smooth" THEN normalized ELSE normalized + 1
    /\ UNCHANGED <<inputs, xx, yy, row_batches, col_batches, future_list,
                   image_tile_list, pbar, merged, err, ev, pt, cm>>

Next ==
    \/ BuildAxes
    \/ SeqCompute
    \/ PartitionOk
    \/ PartitionRaise
    \/ Submit
    \/ \E k \in 1..Len(future_list) : StartTile(k)
    \/ \E k \in 1..Len(future_list) : FinishTile(k)
    \/ \E k \in 1..Len(future_list) : FailTile(k)
    \/ \E k \in 1..Len(future_list) : CollectResult(k)
    \/ \E k \in 1..Len(future_list) : CollectRaise(k)
    \/ Unwind
    \/ AllocateGrid
    \/ MergeTile
    \/ Return

Spec == Init /\ [][Next]_vars

\* The run under fair scheduling: the main process and the workers go on
\* taking steps while a step is possible, and a started tile returns or raises.
\* Every step of Next changes it.
progress ==
    <<pc, merged,
      [k \in 1..Len(future_list) |-> <<future_list[k].state, future_list[k].collected>>]>>

SpecLive == Spec /\ WF_progress(Next)

-----------------------------------------------------------------------------
(* SpecColor: one call of PolyColor.apply (src/py/polycolor.py) *)

MaxField == 2      \* rows and columns of the field: 1..MaxField
MaxNdim == 3       \* data.ndim: 1..MaxNdim

Channels == 3
Scale255 == 255
Uint8Modulus == 256

\* The values a field holds, and the values a channel's accumulated sum
\* (sines and polynomial terms with the random coefficients of the call)
\* may take at them.  The sum is a function of the cell's value alone, so a
\* channel is a table from field values to sums.
DataValues == {RInt(0), Half(1)}
AccValues == {RInt(0), RInt(1), RInt(3)}

\* nan: what 0.0 / 0.0 gives in a numpy array (a RuntimeWarning, no exception).
NaN == <<0, 0>>

\* What casting nan to uint8 may give: the conversion is undefined in C.
UndefinedCast == {0, 255}

RMin(S) == CHOOSE a \in S : \A b \in S : ~RGt(a, b)
RMax(S) == CHOOSE a \in S : \A b \in S : ~RGt(b, a)

\* _normalize: (data - _min) / (_max - _min), element-wise.
normalize(buf) ==
    LET vals == {buf[c] : c \in DOMAIN buf}
        mn == RMin(vals)
        mx == RMax(vals)
    IN  [c \in DOMAIN buf |->
            IF mx = mn THEN NaN ELSE RDiv(RSub(buf[c], mn), RSub(mx, mn))]

\* _color_map_channel: the accumulated sum of every cell, then _normalize.
color_map_channel(data, table) == normalize([c \in DOMAIN data |-> table[data[c]]])

\* 255 * v cast to uint8: truncation, modulo 256; u is what a nan becomes.
cvt_element(v, u) ==
    IF v = NaN THEN u ELSE ((Scale255 * v[1]) \div v[2]) % Uint8Modulus

\* _cvtcolor
cvtcolor(buffer, u) ==
    [ch \in 1..Len(buffer) |-> [c \in DOMAIN buffer[ch] |-> cvt_element(buffer[ch][c], u)]]

\* if data.ndim != 2 with the test weakened to "more than 2".
rejects_more_than_2d(ndim) == ndim > 2

\* if data.ndim != 2
rejects_ndim(ndim) == ndim # 2

InitColor ==
    /\ RunIdle
    /\ ev = None
    /\ pt = None
    /\ \E nd \in 1..MaxNdim, r \in 1..MaxField, c \in 1..MaxField :
          \E d \in [Cells(r, c) -> DataValues] :
              cm = [ndim |-> nd, rows |-> r, cols |-> c, data |-> d,
                    pc |-> "apply", buffer |-> <<>>, out |-> <<>>, err |-> None]

\* apply: the dimension test fails and ValueError is raised.
ApplyReject ==
    /\ cm.pc = "apply"
    /\ rejects_ndim(cm.ndim)
    /\ cm' = [cm EXCEPT !.pc = "raised", !.err = "ValueError"]
    /\ UNCHANGED <<runvars, ev, pt>>

\* apply: the dimension test passes and the buffer is allocated.
ApplyAccept ==
    /\ cm.pc = "apply"
    /\ ~rejects_ndim(cm.ndim)
    /\ cm' = [cm EXCEPT !.pc = "channels"]
    /\ UNCHANGED <<runvars, ev, pt>>

\* One pass of "for channel in range(3)".
ColorMapChannel ==
    /\ cm.pc = "channels"
    /\ Len(cm.buffer) < Channels
    /\ \E table \in [DataValues -> AccValues] :
          cm' = [cm EXCEPT !.buffer = Append(cm.buffer, color_map_channel(cm.data, table))]
    /\ UNCHANGED <<runvars, ev, pt>>

\* buffer = self._cvtcolor(buffer); return buffer
ApplyReturn ==
    /\ cm.pc = "channels"
    /\ Len(cm.buffer) = Channels
    /\ \E u \in UndefinedCast :
          cm' = [cm EXCEPT !.pc = "returned", !.out = cvtcolor(cm.buffer, u)]
    /\ UNCHANGED <<runvars, ev, pt>>

NextColor == ApplyReject \/ ApplyAccept \/ ColorMapChannel \/ ApplyReturn

SpecColor == InitColor /\ [][NextColor]_vars

-----------------------------------------------------------------------------
(* Properties *)

Range(q) == {q[i] : i \in 1..Len(q)}

RanOk(q, N, b) ==
    /\ Len(q) >= 1
    /\ q[1][1] = 0
    /\ q[Len(q)][2] = N
    /\ \A i \in 1..Len(q) :
          /\ 0 <= q[i][1] /\ q[i][1] < q[i][2] /\ q[i][2] <= N
          /\ q[i][2] - q[i][1] <= b
    /\ \A i \in 1..Len(q), j \in 1..Len(q) :
          i < j => q[i][1] < q[j][1] /\ q[i][2] <= q[j][1]
    /\ \A n \in 0..(N - 1) :
          Cardinality({i \in 1..Len(q) : q[i][1] <= n /\ n < q[i][2]}) = 1

\* C1: for N >= 1 and tile_size >= 1, batch_ranges_with_size(N, tile_size)
\* returns (it does not raise) ranges that are sorted by start, pairwise
\* disjoint, non-empty, inside [0, N), cover every index of [0, N) exactly once
\* and are each at most tile_size long.
C1_PartitionExact ==
    pt.batch_size >= 1 =>
        /\ pt.pc # "raised"
        /\ pt.pc = "returned" => RanOk(pt.rng, pt.N, pt.batch_size)

C1_Witness ==
    /\ pt.pc = "returned"
    /\ pt.N = MaxN /\ pt.batch_size = 3
    /\ Len(pt.rng) = (MaxN \div 3) + 1
    /\ pt.rng[Len(pt.rng)][2] - pt.rng[Len(pt.rng)][1] < 3

\* The submission loop of compute_image has ended.
AllSubmitted ==
    /\ Pooled
    /\ \/ pc \in {"collect", "unwind", "merge", "done"}
       \/ pc = "raised" /\ err.type = "Exception"

TileOf(f) == <<f.rmin, f.rmax, f.cmin, f.cmax>>

InTile(cell, t) ==
    /\ t[1] <= cell[1] /\ cell[1] < t[2]
    /\ t[3] <= cell[2] /\ cell[2] < t[4]

SubmittedTiles == {TileOf(future_list[k]) : k \in 1..Len(future_list)}

CrossProduct ==
    {<<rb[1], rb[2], cb[1], cb[2]>> : rb \in Range(row_batches), cb \in Range(col_batches)}

\* C2: once compute_image has submitted its tiles, the submitted tiles are
\* the cross product of the row ranges and the column ranges, each submitted
\* once; and for tile_size >= 1 every cell of the rows x cols grid lies in
\* exactly one submitted tile.
C2_TilesPartitionGrid ==
    AllSubmitted =>
        /\ SubmittedTiles = CrossProduct
        /\ Len(future_list) = Cardinality(CrossProduct)
        /\ tile_size >= 1 =>
              \A cell \in Cells(rows_n, cols_n) :
                  Cardinality({k \in 1..Len(future_list) :
                                  InTile(cell, TileOf(future_list[k]))}) = 1

C2_Witness ==
    /\ AllSubmitted
    /\ rows_n = 3 /\ cols_n = 2 /\ tile_size = 2
    /\ Len(future_list) = 2
    /\ SubmittedTiles = {<<0, 2, 0, 2>>, <<2, 3, 0, 2>>}

\* The grid one evaluation per cell gives: what the unpooled path of
\* mandelbrot_float.py / mandelbrot_complex.py (n_workers <= 1) returns, and
\* the unnormalised evaluations for mandelbrot.py.
SequentialGrid ==
    LET whole == compute_tile(variant, xx, yy, 0, Len(yy), 0, Len(xx), depth).zz
    IN  IF variant = "smooth" THEN whole ELSE Normalize(whole, depth)

\* How many of the merged tiles cover the cell.
WrittenCount(cell) ==
    Cardinality({k \in 1..merged : InTile(cell, TileOf(image_tile_list[k]))})

MergeComplete ==
    \A cell \in Cells(rows_n, cols_n) :
        /\ zz[cell] = fn_test(variant, xx[cell[2] + 1], yy[cell[1] + 1], depth)
        /\ WrittenCount(cell) = 1

\* C3: when compute_image of mandelbrot.py returns, whatever the order in
\* which the tiles completed, every cell (r, c) of the returned grid holds
\* fn_test(xx[c], yy[r], depth) and was written by exactly one tile.
C3_EveryCellEvaluated ==
    (pc = "done" /\ variant = "smooth") => MergeComplete

\* What holds of the code in place of C3: the same, for tile_size >= 1.
MergeCompleteForPositiveTileSize ==
    (pc = "done" /\ variant = "smooth" /\ tile_size >= 1) => MergeComplete

\* C4: the grid a run returns does not depend on the worker count: it is the
\* grid of the one-worker run, which in mandelbrot_float.py and
\* mandelbrot_complex.py is the unpooled path's.
C4_SameGridForAnyWorkerCount ==
    pc = "done" => zz = SequentialGrid

\* What holds of the code in place of C4: the same, for tile_size >= 1.
SameGridForPositiveTileSize ==
    (pc = "done" /\ tile_size >= 1) => zz = SequentialGrid

SomeTileFailed ==
    \E k \in 1..Len(future_list) : future_list[k].exc # NoException

\* C5: if the computation of a tile has raised, compute_image never gets to
\* allocate, fill or return a grid: the run can only go on to raise.
C5_FailureAbortsRun ==
    SomeTileFailed =>
        /\ pc \in {"submit", "collect", "unwind", "raised"}
        /\ zz = NoGrid
        /\ (pc = "raised" => err.type = "Exception")

C5_Witness ==
    /\ pc = "raised"
    /\ SomeTileFailed
    /\ Len(image_tile_list) >= 1
    /\ Len(future_list) = MaxTiles

\* C6: the error that reaches the caller after a tile failed carries that
\* tile's coordinates (row_start, row_end, col_start, col_end).
C6_ErrorNamesTile ==
    (pc = "raised" /\ err.origin >= 1) =>
        err.coords = TileOf(future_list[err.origin])

\* C7: a run of mandelbrot.py with tile_size <= 0 submits no tile, returns no
\* grid, and ends with an error that names the violated constraint.
C7_NonPositiveTileSizeRejected ==
    (variant = "smooth" /\ tile_size <= 0) =>
        /\ future_list = <<>>
        /\ pc \in {"mandelbrot", "compute_image", "raised"}
        /\ (pc = "raised" => err.names = "tile_size")

InUnit(v) == 0 <= v[1] /\ v[1] <= v[2]

\* C8: every cell of a returned grid lies in [0, 1].
C8_CellsInUnitInterval ==
    pc = "done" => \A cell \in DOMAIN zz : InUnit(zz[cell])

\* What holds of the code in place of C8: the same, for tile_size >= 1.
CellsInUnitIntervalForPositiveTileSize ==
    (pc = "done" /\ (tile_size >= 1 \/ ~Pooled)) =>
        \A cell \in DOMAIN zz : InUnit(zz[cell])

\* C9: called on the origin, fn_test never escapes: the iterate is (0, 0) at
\* every step, the escape test never succeeds, all depth passes are made and
\* the sentinel is returned (0 in mandelbrot.py, max_it in the other two).
C9_OriginNeverEscapes ==
    (ev.cx = RInt(0) /\ ev.cy = RInt(0)) =>
        /\ ev.x = RInt(0) /\ ev.y = RInt(0)
        /\ ~ev.escaped
        /\ ev.pc = "returned" =>
              /\ ev.i = ev.depth
              /\ ev.ret = IF ev.variant = "smooth" THEN RInt(0) ELSE RInt(ev.depth)

C9_Witness ==
    /\ ev.cx = RInt(0) /\ ev.cy = RInt(0)
    /\ ev.pc = "returned"
    /\ ev.variant = "float"
    /\ ev.depth = MaxDepth
    /\ ev.ret = RInt(MaxDepth)

\* C10: for a point with cx*cx + cy*cy > 4 and depth >= 2, every variant of
\* fn_test returns from the escape test at loop index i <= 1.
C10_OutsideEscapesByIndexOne ==
    (/\ ev.pc = "returned"
     /\ ev.depth >= 2
     /\ RGt(RAdd(RMul(ev.cx, ev.cx), RMul(ev.cy, ev.cy)), RInt(4))) =>
        ev.escaped /\ ev.i <= 1

\* What holds of the code in place of C10: the variants that test against 4
\* (mandelbrot.py, mandelbrot_complex.py) escape at index 0.
OutsideEscapesAtIndexZeroThresholdFour ==
    (/\ ev.pc = "returned"
     /\ ev.variant # "float"
     /\ RGt(RAdd(RMul(ev.cx, ev.cx), RMul(ev.cy, ev.cy)), RInt(4))) =>
        ev.escaped /\ ev.i = 0

\* The tqdm bar of the run has been created.
BarOpen ==
    /\ Pooled
    /\ \/ pc \in {"submit", "collect", "unwind", "merge", "done"}
       \/ pc = "raised" /\ err.type = "Exception"

Collected == {k \in 1..Len(future_list) : future_list[k].collected}

\* C11: the progress counter starts at 0, goes up by exactly 1 with each
\* collected tile result and changes at no other step, never exceeds the total
\* announced when the bar was created (row ranges x column ranges), and equals
\* that total when the run returns.
C11_ProgressCounter ==
    /\ [](BarOpen =>
            /\ pbar.total = Len(row_batches) * Len(col_batches)
            /\ 0 <= pbar.n /\ pbar.n <= pbar.total
            /\ pbar.n = Len(image_tile_list)
            /\ (pc = "done" => pbar.n = pbar.total))
    /\ [][(~BarOpen /\ BarOpen') => pbar'.n = 0]_vars
    /\ [][(BarOpen /\ BarOpen') =>
            /\ pbar'.total = pbar.total
            /\ pbar'.n = pbar.n \/ pbar'.n = pbar.n + 1
            /\ (pbar'.n = pbar.n + 1) <=>
                   (\E k \in 1..Len(future_list) :
                       /\ future_list[k].exc = NoException
                       /\ ~future_list[k].collected
                       /\ future_list'[k].collected)]_vars

C11_Witness ==
    /\ pc = "done"
    /\ Pooled
    /\ pbar.total = MaxTiles
    /\ pbar.n = MaxTiles

ConstantField == \A a \in DOMAIN cm.data, b \in DOMAIN cm.data : cm.data[a] = cm.data[b]

\* C12: PolyColor.apply on a 2D field of identical values does not raise, and
\* no division by zero reaches the output: no element of a channel's
\* normalised buffer is the nan of 0 / 0, so every output element is the cast
\* of a number in [0, 1].
C12_ConstantFieldHandled ==
    (cm.ndim = 2 /\ ConstantField) =>
        /\ cm.pc # "raised"
        /\ \A ch \in 1..Len(cm.buffer) : \A c \in DOMAIN cm.buffer[ch] :
              /\ cm.buffer[ch][c] # NaN
              /\ InUnit(cm.buffer[ch][c])

\* What holds of the code in place of C12: a field whose channel sums differ
\* somewhere is normalised into [0, 1] with no nan.
NoNaNWhenSumsDiffer ==
    \A ch \in 1..Len(cm.buffer) :
        (\E c \in DOMAIN cm.buffer[ch] : cm.buffer[ch][c] # NaN) =>
            \A c \in DOMAIN cm.buffer[ch] :
                cm.buffer[ch][c] # NaN /\ InUnit(cm.buffer[ch][c])

\* C13: PolyColor.apply on a field whose ndim is not 2 raises ValueError and
\* maps no channel and returns no image.
C13_NonTwoDimRejected ==
    cm.ndim # 2 =>
        /\ cm.pc \in {"apply", "raised"}
        /\ Len(cm.buffer) = 0
        /\ Len(cm.out) = 0
        /\ (cm.pc = "raised" => cm.err = "ValueError")

C13_Witness ==
    /\ cm.ndim = 1
    /\ cm.pc = "raised"
    /\ cm.err = "ValueError"

\* The value the grid holds for an evaluation result: the result divided
\* once by max_it for the raw counts, the result itself for the fractions.
DividedOnce(raw) == IF variant = "smooth" THEN raw ELSE RDiv(raw, RInt(depth))

\* C14: in a run of a raw-count variant the division by max_it is executed
\* exactly once, on the unpooled path and on the pooled path alike, and never
\* before the grid is complete; in a run of mandelbrot.py it is never
\* executed.  Every cell a tile wrote holds the tile's value divided once
\* (raw counts) or undivided (fractions).
C14_DividedExactlyOnce ==
    /\ normalized <= 1
    /\ pc # "done" => normalized = 0
    /\ pc = "done" =>
          /\ variant = "smooth" => normalized = 0
          /\ variant # "smooth" => normalized = 1
          /\ ~Pooled => zz = SequentialGrid
          /\ Pooled =>
                \A k \in 1..Len(image_tile_list) :
                    \A cell \in DOMAIN image_tile_list[k].zz :
                        zz[<<image_tile_list[k].rmin + cell[1],
                             image_tile_list[k].cmin + cell[2]>>]
                            = DividedOnce(image_tile_list[k].zz[cell])

C14_Witness ==
    /\ pc = "done"
    /\ variant = "float"
    /\ Pooled
    /\ normalized = 1
    /\ depth = MaxDepth
    /\ Len(image_tile_list) = MaxTiles
    /\ \E cell \in DOMAIN zz : zz[cell] = Rat(1, MaxDepth)

\* C15 as stated: with one sample per axis the real axis is [xmin] and the
\* imaginary axis is [ymin].
C15_SingleSampleIsMinBound ==
    pc # "mandelbrot" =>
        /\ cols_n = 1 => xx = <<box[1]>>
        /\ rows_n = 1 => yy = <<box[3]>>

\* C15 (amended): with one sample per axis each axis is the start of its
\* interpolation: the real axis is [xmin] and the imaginary axis, which runs
\* from ymax down to ymin, is [ymax].
C15_SingleSampleIsStart ==
    pc # "mandelbrot" =>
        /\ cols_n = 1 => xx = <<box[1]>>
        /\ rows_n = 1 => yy = <<box[4]>>

C15_Witness ==
    /\ pc = "done"
    /\ cols_n = 1 /\ rows_n = 1
    /\ box[3] # box[4]
    /\ yy = <<box[4]>>

\* The partition of section 4.3: floor(N / b) full ranges, then the
\* remainder range if N is not a multiple of b; (0, N) alone when N <= b.
ReferencePartition(N, b) ==
    IF N <= b
    THEN << <<0, N>> >>
    ELSE [i \in 1..((N + b - 1) \div b) |->
             IF i <= N \div b
             THEN <<(i - 1) * b, i * b>>
             ELSE <<(N \div b) * b, N>>]

\* C16: for N >= 1 and tile_size >= 1, batch_ranges_with_size(N, tile_size)
\* returns the reference partition: (0, N) alone when N <= tile_size,
\* otherwise floor(N / tile_size) full ranges followed by one remainder range
\* exactly when N is not a multiple of tile_size; it has ceil(N / tile_size)
\* ranges and every range but the last has length tile_size.
C16_ReferencePartition ==
    (pt.pc = "returned" /\ pt.batch_size >= 1) =>
        /\ pt.rng = ReferencePartition(pt.N, pt.batch_size)
        /\ Len(pt.rng) = (pt.N + pt.batch_size - 1) \div pt.batch_size
        /\ \A i \in 1..(Len(pt.rng) - 1) : pt.rng[i][2] - pt.rng[i][1] = pt.batch_size
        /\ pt.N > pt.batch_size =>
              ((Len(pt.rng) = (pt.N \div pt.batch_size) + 1) <=>
                   (pt.N % pt.batch_size # 0))

C16_Witness ==
    /\ pt.pc = "returned"
    /\ pt.N = MaxN /\ pt.batch_size = 2
    /\ pt.rng = << <<0, 2>>, <<2, 4>>, <<4, 6>>, <<6, MaxN>> >>

\* The k-th element (from 1) of the row-major cross product of the ranges.
RowMajorTile(k) ==
    LET rb == row_batches[((k - 1) \div Len(col_batches)) + 1]
        cb == col_batches[((k - 1) % Len(col_batches)) + 1]
    IN  <<rb[1], rb[2], cb[1], cb[2]>>

\* C17: the tiles are submitted in row-major order of the cross product of
\* the row ranges and the column ranges, and while a tile is still
\* unsubmitted the run is in its submission loop and nothing has been
\* collected: no future.result(), no appended tile, no progress update.
C17_SubmitAllThenCollect ==
    BarOpen =>
        /\ Len(future_list) <= Len(row_batches) * Len(col_batches)
        /\ \A k \in 1..Len(future_list) : TileOf(future_list[k]) = RowMajorTile(k)
        /\ Len(future_list) < Len(row_batches) * Len(col_batches) =>
              /\ pc = "submit"
              /\ Collected = {}
              /\ image_tile_list = <<>>
              /\ pbar.n = 0
              /\ err = NoException

C17_Witness ==
    /\ pc = "collect"
    /\ Len(future_list) = MaxTiles
    /\ Len(row_batches) = 2 /\ Len(col_batches) = 2
    /\ Collected = {MaxTiles}
    /\ future_list[1].state = "PENDING"

\* C18: once the collection loop has left with a tile's exception, the tiles
\* that have not started are never started: a future that is PENDING stays
\* PENDING in every step of the shutdown, and the exception may reach the
\* caller while tiles are unfinished.
C18_PendingWorkAbandoned ==
    /\ [][pc = "unwind" =>
            \A k \in 1..Len(future_list) :
                future_list[k].state = "PENDING" => future_list'[k].state = "PENDING"]_vars
    /\ [](pc = "unwind" => ENABLED Unwind)

\* What holds of the code in place of C18: the exception of a tile reaches the
\* caller only when every submitted tile has run to its end.
RaisedAfterEveryTileFinished ==
    (pc = "raised" /\ err.type = "Exception") =>
        \A k \in 1..Len(future_list) : future_list[k].state = "FINISHED"

Ended == pc \in {"done", "raised"}

\* C19: under fair scheduling, with every started tile returning or raising,
\* every run ends (returns a grid or raises).  The collection loop collects
\* each submitted tile at most once and only submitted tiles, and once every
\* tile is collected the merge loop and the return are reached.
C19_RunEnds ==
    /\ <>Ended
    /\ [](Pooled /\ pc \in {"collect", "unwind", "merge", "done"} =>
             /\ Cardinality(Collected) <= Len(future_list)
             /\ Len(image_tile_list) <= Cardinality(Collected)
             /\ \A k \in Collected : future_list[k].state = "FINISHED")
    /\ [][\A k \in 1..Len(future_list) :
             future_list[k].collected => future_list'[k].collected]_progress
    /\ (pc = "collect" /\ Collected = 1..Len(future_list)) ~> (pc = "done")

C19_Witness ==
    /\ pc = "done"
    /\ variant = "smooth"
    /\ n_workers = 1
    /\ Len(future_list) = MaxTiles
    /\ Collected = 1..MaxTiles

\* C20: for every variant, point and depth >= 1, fn_test returns the
\* did-not-escape sentinel (0 in mandelbrot.py, max_it in the raw-count
\* variants) if and only if the point did not escape within the budget.
C20_SentinelIffNotEscaped ==
    ev.pc = "returned" =>
        ((ev.ret = Sentinel(ev.variant, ev.depth)) <=> ~ev.escaped)

\* What holds of the code in place of C20: the equivalence for the raw-count
\* variants, and for mandelbrot.py when the escape is at a loop index i >= 1.
SentinelIffNotEscapedAfterIndexZero ==
    (ev.pc = "returned" /\ (ev.variant # "smooth" \/ ev.i >= 1 \/ ~ev.escaped)) =>
        ((ev.ret = Sentinel(ev.variant, ev.depth)) <=> ~ev.escaped)

====
